---- MODULE Spec2Model ----
(***************************************************************************)
(* A model of dataset_manager.py: the metadata store (load_metadata,       *)
(* save_metadata, merge_with_video_list), tag normalisation, and the       *)
(* background preview generation of DatasetManagerApp.                     *)
(*                                                                         *)
(* Strings are sequences of symbols.  A symbol is one character ("/", "a") *)
(* or a token that no operation of the program looks inside (".mp4").      *)
(* Python dicts are insertion ordered: a dict is a sequence of <<key,      *)
(* value>> pairs with distinct keys.                                       *)
(***************************************************************************)
EXTENDS Integers, Sequences, FiniteSets, TLC

VARIABLES
    sidecar,        \* disk: resolved dataset dir -> content of .data/video_metadata.json
    history,        \* disk: resolved dataset dir -> (timestamp -> content) of .data/history/
    previews,       \* disk: the preview files that exist (path strings)
    now,            \* the wall clock, in seconds (datetime.now() at %S resolution)
    gone,           \* disk: the video files deleted since the start (path strings)
    arg,            \* function harness: the arguments of the call under check
    ret,            \* function harness: what the calls returned
    pc,             \* function harness: position of the caller
    libs,           \* which optional imports succeeded: [cv2, pil]
    _dataset_dir,   \* DatasetManagerApp._dataset_dir: a path string or None
    _video_paths,   \* DatasetManagerApp._video_paths
    _metadata,      \* DatasetManagerApp._metadata
    _export_selected, \* DatasetManagerApp._export_selected
    tree,           \* the rows of the Treeview, in order
    sel,            \* the Treeview's selection: an iid or None
    panel,          \* the preview panel: its label and its image
    status,         \* the three status labels
    boxes,          \* the message boxes the last handler showed
    threads,        \* the background threads started so far
    after_q,        \* callbacks given to root.after(0, ...) and not run yet
    loads,          \* how often a directory was loaded (_refresh_table ran)
    saves,          \* _on_save's calls of save_metadata: how many, and where the last one failed
    inline          \* the inline entry: None, or <<_inline_iid, _inline_col>>

diskVars == <<sidecar, history, previews, now, gone>>

harnessVars == <<arg, ret, pc>>

appVars == <<libs, _dataset_dir, _video_paths, _metadata, _export_selected, tree, sel, panel,
             status, boxes, threads, after_q, loads, saves, inline>>

vars == <<diskVars, harnessVars, appVars>>

\* Python's None, where a variable holds it or a string
None == <<"None">>

(***************************************************************************)
(* Sequences and strings                                                   *)
(***************************************************************************)
Range(s) == {s[i] : i \in 1..Len(s)}

SeqsUpTo(S, n) == UNION {[1..k -> S] : k \in 0..n}

RECURSIVE Concat(_)
Concat(ss) == IF ss = <<>> THEN <<>> ELSE Head(ss) \o Concat(Tail(ss))

\* sep.join(parts)
RECURSIVE StrJoin(_, _)
StrJoin(sep, parts) ==
    IF parts = <<>> THEN <<>>
    ELSE IF Len(parts) = 1 THEN parts[1]
    ELSE parts[1] \o sep \o StrJoin(sep, Tail(parts))

(***************************************************************************)
(* pathlib on a POSIX file system.  A Path is [abs, parts]: whether it is  *)
(* absolute, and its components (each a string without "/").               *)
(***************************************************************************)
\* s.split(c), cur being the piece read so far
RECURSIVE SplitOn(_, _, _)
SplitOn(s, c, cur) ==
    IF s = <<>> THEN <<cur>>
    ELSE IF Head(s) = c THEN <<cur>> \o SplitOn(Tail(s), c, <<>>)
    ELSE SplitOn(Tail(s), c, Append(cur, Head(s)))

\* the components pathlib keeps: empty ones and "." are dropped
RECURSIVE KeptParts(_)
KeptParts(cs) ==
    IF cs = <<>> THEN <<>>
    ELSE (IF Head(cs) \in {<<>>, <<".">>} THEN <<>> ELSE <<Head(cs)>>) \o KeptParts(Tail(cs))

\* Path(s)
PathOf(s) == [abs |-> s # <<>> /\ Head(s) = "/", parts |-> KeptParts(SplitOn(s, "/", <<>>))]

\* str(p)
PathStr(p) ==
    IF p.abs THEN <<"/">> \o StrJoin(<<"/">>, p.parts)
    ELSE IF p.parts = <<>> THEN <<".">>
    ELSE StrJoin(<<"/">>, p.parts)

PathJoinConcat(p, q) == [abs |-> p.abs, parts |-> p.parts \o q.parts]

\* p / q: an absolute right operand replaces the left one
PathJoin(p, q) == IF q.abs THEN q ELSE [abs |-> p.abs, parts |-> p.parts \o q.parts]

\* p.name
PathName(p) == IF p.parts = <<>> THEN <<>> ELSE p.parts[Len(p.parts)]

IsPrefix(a, b) == Len(a) <= Len(b) /\ SubSeq(b, 1, Len(a)) = a

\* p.relative_to(base) raises ValueError unless base is a prefix of p
RelativeToRaises(p, base) == ~(p.abs = base.abs /\ IsPrefix(base.parts, p.parts))

RelativeTo(p, base) ==
    [abs |-> FALSE, parts |-> SubSeq(p.parts, Len(base.parts) + 1, Len(p.parts))]

\* The file system the paths are resolved on: the process's working
\* directory and its symbolic links (link components -> target components).
Cwd == << <<"a">> >>

SymlinkAt(parts) == parts = << <<"s">> >>

SymlinkTarget(parts) == << <<"a">> >>

\* os.path.realpath, component by component: ".." drops the last component
\* (the root is its own parent), a symbolic link is replaced by its target.
RECURSIVE RealPath(_, _)
RealPath(done, rest) ==
    IF rest = <<>> THEN done
    ELSE IF Head(rest) = <<"..">>
         THEN RealPath(IF done = <<>> THEN <<>> ELSE SubSeq(done, 1, Len(done) - 1), Tail(rest))
    ELSE IF SymlinkAt(Append(done, Head(rest)))
         THEN RealPath(SymlinkTarget(Append(done, Head(rest))), Tail(rest))
    ELSE RealPath(Append(done, Head(rest)), Tail(rest))

\* p.resolve()
Resolve(p) ==
    [abs |-> TRUE, parts |-> IF p.abs THEN RealPath(<<>>, p.parts) ELSE RealPath(Cwd, p.parts)]

\* str(Path(s).resolve())
ResolvedStr(s) == PathStr(Resolve(PathOf(s)))

(***************************************************************************)
(* Python dicts: sequences of <<key, value>> pairs with distinct keys, in  *)
(* insertion order.                                                        *)
(***************************************************************************)
DictKeys(d) == {d[i][1] : i \in 1..Len(d)}

DictHas(d, k) == k \in DictKeys(d)

DictGet(d, k) == d[CHOOSE i \in 1..Len(d) : d[i][1] = k][2]

\* d[k] = v
DictSet(d, k, v) ==
    IF DictHas(d, k) THEN [i \in 1..Len(d) |-> IF d[i][1] = k THEN <<k, v>> ELSE d[i]]
    ELSE Append(d, <<k, v>>)

\* d1 == d2 in Python: the same keys with the same values, in any order
DictEq(d1, d2) ==
    /\ DictKeys(d1) = DictKeys(d2)
    /\ \A k \in DictKeys(d1) : DictGet(d1, k) = DictGet(d2, k)

\* A metadata entry is a dict over the fields below; its values are strings
\* or, when read from a file another program wrote, one of two atoms.
Fields == {"tags", "notes"}

JsonNull == <<"\\null">>

JsonNumber == <<"\\number">>

\* x or ""
OrEmpty(x) == IF x \in {<<>>, JsonNull} THEN <<>> ELSE x

\* e.get(f, "")
FieldGet(e, f) == IF f \in DOMAIN e THEN e[f] ELSE <<>>

\* e.setdefault(f, "") for both fields
WithDefaults(e) == [f \in DOMAIN e \cup Fields |-> IF f \in DOMAIN e THEN e[f] ELSE <<>>]

EmptyEntry == [f \in Fields |-> <<>>]

(***************************************************************************)
(* The metadata store: the sidecar file and its history directory          *)
(***************************************************************************)
\* What the sidecar file can hold.  "not_utf8": bytes that are not UTF-8 text;
\* "not_json": text json.load rejects (the empty file is one);
\* "unreadable": the path exists and open() fails; "json": a JSON value;
\* "absent": no such file; "no_dir": not even the dataset directory.
Absent == [kind |-> "absent"]

\* the dataset directory itself does not exist
NoDir == [kind |-> "no_dir"]

Unreadable == [kind |-> "unreadable"]

NotUtf8 == [kind |-> "not_utf8"]

NotJson == [kind |-> "not_json"]

\* a JSON object is its members in file order; any other JSON value is "other"
JsonObject(items) == [t |-> "object", items |-> items]

JsonOther == [t |-> "other"]

JsonFile(v) == [kind |-> "json", value |-> v]

\* open(path, "r", encoding="utf-8") and json.load(f): the exception raised,
\* or "none"
ReadRaises(content) ==
    CASE content.kind = "unreadable" -> "OSError"
      [] content.kind = "not_utf8" -> "UnicodeDecodeError"
      [] content.kind = "not_json" -> "JSONDecodeError"
      [] OTHER -> "none"

\* except (json.JSONDecodeError, OSError)
LoadCaught == {"JSONDecodeError", "OSError"}

\* json.load of an object: a repeated member name keeps its last value
RECURSIVE ParsedObject(_, _)
ParsedObject(items, acc) ==
    IF items = <<>> THEN acc
    ELSE ParsedObject(Tail(items), DictSet(acc, Head(items)[1], Head(items)[2]))

\* the loop of load_metadata over data.items()
RECURSIVE LoadedEntries(_, _, _)
LoadedEntries(items, dataset_resolved, out) ==
    IF items = <<>> THEN out
    ELSE LET rel_key == Head(items)[1]
             v == Head(items)[2]
             full_path == Resolve(PathJoin(dataset_resolved, PathOf(rel_key)))
         IN  LoadedEntries(Tail(items), dataset_resolved,
                IF v.t = "object"
                THEN DictSet(out, PathStr(full_path),
                             [f \in Fields |-> OrEmpty(FieldGet(v.fields, f))])
                ELSE out)

\* load_metadata(dataset_dir) when the sidecar holds `content`:
\* [raised |-> the exception that escapes or "none", value |-> the dict returned]
load_metadata(content, dataset_dir) ==
    IF content.kind \in {"absent", "no_dir"} THEN [raised |-> "none", value |-> <<>>]
    ELSE IF ReadRaises(content) \in LoadCaught THEN [raised |-> "none", value |-> <<>>]
    ELSE IF ReadRaises(content) # "none" THEN [raised |-> ReadRaises(content), value |-> <<>>]
    ELSE IF content.value.t # "object" THEN [raised |-> "none", value |-> <<>>]
    ELSE [raised |-> "none",
          value |-> LoadedEntries(ParsedObject(content.value.items, <<>>),
                                  Resolve(PathOf(dataset_dir)), <<>>)]

\* the loop of save_metadata over data.items(): the dict written to the file
RECURSIVE SavedObject(_, _, _)
SavedObject(data, dataset_resolved, out) ==
    IF data = <<>> THEN out
    ELSE LET p == PathOf(Head(data)[1])
             rel == IF RelativeToRaises(p, dataset_resolved) THEN p
                    ELSE RelativeTo(p, dataset_resolved)
         IN  SavedObject(Tail(data), dataset_resolved, DictSet(out, PathStr(rel), Head(data)[2]))

\* json.dump(out, f)
Dumped(out) ==
    JsonFile(JsonObject([i \in 1..Len(out) |->
                            <<out[i][1], [t |-> "object", fields |-> out[i][2]]>>]))

\* Where save_metadata can fail with an OSError: data_dir.mkdir, open(path,
\* "w"), the write of json.dump, history_dir.mkdir, shutil.copy2.
SaveFaults == {"none", "mkdir", "open", "write", "history_mkdir", "copy"}

\* the sidecar after save_metadata: mkdir(parents=True) makes the dataset
\* directory when it is missing; open(path, "w") truncates the file, so a
\* write that fails leaves text that is not JSON
SidecarAfterSave(old, dataset_dir, data, fault) ==
    CASE fault = "mkdir" -> old
      [] fault = "open" -> IF old = NoDir THEN Absent ELSE old
      [] fault = "write" -> NotJson
      [] OTHER -> Dumped(SavedObject(data, Resolve(PathOf(dataset_dir)), <<>>))

\* datetime.now().strftime("%Y%m%d_%H%M%S"): the clock counts half seconds,
\* the name of a history file holds whole seconds
Timestamp(t) == t \div 2

\* the history directory after save_metadata: shutil.copy2 writes the file
\* named by the timestamp, replacing a file of that name
HistoryAfterSave(old, content, fault, t) ==
    IF fault # "none" THEN old
    ELSE [ts \in DOMAIN old \cup {Timestamp(t)} |-> IF ts = Timestamp(t) THEN content ELSE old[ts]]

\* the loop of merge_with_video_list over video_paths
RECURSIVE Merged(_, _, _)
Merged(video_paths, metadata, result) ==
    IF video_paths = <<>> THEN result
    ELSE LET key == ResolvedStr(Head(video_paths))
         IN  Merged(Tail(video_paths), metadata,
                    DictSet(result, key,
                            WithDefaults(IF DictHas(metadata, key) THEN DictGet(metadata, key)
                                         ELSE EmptyEntry)))

MergeKeepingStored(video_paths, metadata) == Merged(video_paths, metadata, metadata)

merge_with_video_list(video_paths, metadata) == Merged(video_paths, metadata, <<>>)

(***************************************************************************)
(* normalize_tags                                                          *)
(***************************************************************************)
IsSpace(c) == c \in {" ", "\t"}

\* the character class [\s;,]
IsSep(c) == IsSpace(c) \/ c \in {";", ","}

\* str.strip(): drop leading and trailing whitespace
RECURSIVE LStrip(_)
LStrip(s) == IF s # <<>> /\ IsSpace(Head(s)) THEN LStrip(Tail(s)) ELSE s

RECURSIVE RStrip(_)
RStrip(s) == IF s # <<>> /\ IsSpace(s[Len(s)]) THEN RStrip(SubSeq(s, 1, Len(s) - 1)) ELSE s

Strip(s) == RStrip(LStrip(s))

\* re.split(r"[\s;,]+", s): the pieces between maximal runs of separators; a
\* run at the start or at the end of s leaves an empty piece there.
RECURSIVE SkipSeps(_, _)
SkipSeps(s, i) == IF i <= Len(s) /\ IsSep(s[i]) THEN SkipSeps(s, i + 1) ELSE i

RECURSIVE ReSplitFrom(_, _, _)
ReSplitFrom(s, i, cur) ==
    IF i > Len(s) THEN <<cur>>
    ELSE IF IsSep(s[i]) THEN <<cur>> \o ReSplitFrom(s, SkipSeps(s, i), <<>>)
    ELSE ReSplitFrom(s, i + 1, Append(cur, s[i]))

ReSplit(s) == ReSplitFrom(s, 1, <<>>)

\* [p for p in parts if p.strip()]
RECURSIVE NonBlank(_)
NonBlank(parts) ==
    IF parts = <<>> THEN <<>>
    ELSE (IF Strip(Head(parts)) # <<>> THEN <<Head(parts)>> ELSE <<>>) \o NonBlank(Tail(parts))

StripAll(parts) == [i \in 1..Len(parts) |-> Strip(parts[i])]

TagJoiner == <<";", " ">>

NormalizeTagsNoSpace(raw) ==
    IF raw = <<>> \/ Strip(raw) = <<>> THEN <<>>
    ELSE StrJoin(<<";">>, StripAll(NonBlank(ReSplit(Strip(raw)))))

normalize_tags(raw) ==
    IF raw = <<>> \/ Strip(raw) = <<>> THEN <<>>
    ELSE StrJoin(TagJoiner, StripAll(NonBlank(ReSplit(Strip(raw)))))

\* count_tags_in_metadata: the Counter, a function from each tag to the
\* number of its occurrences
TagPieces(entry) == SplitOn(OrEmpty(FieldGet(entry, "tags")), ";", <<>>)

TagOccurrences(metadata) ==
    UNION { { <<i, j>> : j \in {k \in 1..Len(TagPieces(metadata[i][2])) :
                                   Strip(TagPieces(metadata[i][2])[k]) # <<>>} } :
            i \in 1..Len(metadata) }

count_tags_in_metadata(metadata) ==
    [t \in {Strip(TagPieces(metadata[o[1]][2])[o[2]]) : o \in TagOccurrences(metadata)} |->
        Cardinality({o \in TagOccurrences(metadata) :
                        Strip(TagPieces(metadata[o[1]][2])[o[2]]) = t})]

(***************************************************************************)
(* The videos on disk, scan_videos and the preview paths                   *)
(***************************************************************************)
\* the symbols of the model in code point order: strings and paths compare
\* symbol by symbol
Alphabet ==
    <<" ", ",", ".", "..", ".MP4", ".data", ".jpg", ".mp4", ".txt", "/", ";",
      "a", "b", "d", "n", "o", "previews", "s", "t", "u", "x", "y", "z">>

SymCode(c) == CHOOSE i \in 1..Len(Alphabet) : Alphabet[i] = c

RECURSIVE StrLess(_, _)
StrLess(a, b) ==
    IF b = <<>> THEN FALSE
    ELSE IF a = <<>> THEN TRUE
    ELSE IF Head(a) # Head(b) THEN SymCode(Head(a)) < SymCode(Head(b))
    ELSE StrLess(Tail(a), Tail(b))

\* Path.__lt__: the components compared in turn
RECURSIVE PartsLess(_, _)
PartsLess(a, b) ==
    IF b = <<>> THEN FALSE
    ELSE IF a = <<>> THEN TRUE
    ELSE IF Head(a) # Head(b) THEN StrLess(Head(a), Head(b))
    ELSE PartsLess(Tail(a), Tail(b))

\* sorted(paths), the paths given as strings
SortedPaths(S) ==
    CHOOSE q \in [1..Cardinality(S) -> S] :
        /\ Range(q) = S
        /\ \A i \in 1..(Len(q) - 1) : PartsLess(PathOf(q[i]).parts, PathOf(q[i + 1]).parts)

\* the directories that exist at the start and the files, by resolved path
FsDirs == {<<"/", "a">>, <<"/", "a", "/", "d">>}

FsFiles ==
    { <<"/", "a", "/", "x", ".mp4">>, <<"/", "a", "/", "d", "/", "y", ".MP4">>,
      <<"/", "a", "/", "n", ".txt">> }

\* dataset_dir.is_dir(): a dataset directory exists unless the disk says not
IsDir(d) == sidecar[ResolvedStr(d)] # NoDir

VIDEO_EXTENSIONS == {".mp4", ".avi", ".mov", ".mkv", ".flv", ".webm"}

\* str.lower() of a suffix
Lower(c) == IF c = ".MP4" THEN ".mp4" ELSE c

\* f.suffix
Suffix(p) ==
    IF PathName(p) # <<>> /\ Len(PathName(p)) > 1 THEN PathName(p)[Len(PathName(p))] ELSE ""

\* dataset_dir.rglob("*"): every file below the directory, named through it
RGlob(dataset_dir) ==
    { PathStr(PathJoin(PathOf(dataset_dir), RelativeTo(PathOf(f), Resolve(PathOf(dataset_dir))))) :
        f \in {g \in FsFiles : ~RelativeToRaises(PathOf(g), Resolve(PathOf(dataset_dir)))} }

\* the list comprehension of scan_videos
ScannedVideos(dataset_dir) ==
    {f \in RGlob(dataset_dir) : Lower(Suffix(PathOf(f))) \in VIDEO_EXTENSIONS}

scan_videos(dataset_dir) == IF ~IsDir(dataset_dir) THEN {} ELSE ScannedVideos(dataset_dir)

\* hashlib.md5(s).hexdigest(): one symbol, different for different strings
RECURSIVE StrCode(_)
StrCode(s) == IF s = <<>> THEN 0 ELSE SymCode(Head(s)) + (Len(Alphabet) + 1) * StrCode(Tail(s))

Md5(s) == ToString(StrCode(s))

DATA_DIR_NAME == <<".data">>

PREVIEWS_DIR == <<"previews">>

PREVIEW_EXT == ".jpg"

get_preview_path(dataset_dir, video_path) ==
    LET rel == IF RelativeToRaises(Resolve(PathOf(video_path)), Resolve(PathOf(dataset_dir)))
               THEN PathName(PathOf(video_path))
               ELSE PathStr(RelativeTo(Resolve(PathOf(video_path)), Resolve(PathOf(dataset_dir))))
    IN  PathStr(PathJoin(PathOf(dataset_dir),
                         [abs |-> FALSE,
                          parts |-> <<DATA_DIR_NAME, PREVIEWS_DIR, <<Md5(rel), PREVIEW_EXT>> >>]))

\* The path strings the application meets, and the functions above tabulated
\* on them (each table entry is the function's value).
AppDirs == {<<"/", "a">>, <<"/", "a", "/", "d">>, <<"/", "n">>}

AppVideos ==
    UNION {ScannedVideos(d) \cup {ResolvedStr(v) : v \in ScannedVideos(d)} : d \in AppDirs}

AppPreviews == {get_preview_path(d, v) : d \in AppDirs, v \in AppVideos}

PreviewPathTable == [d \in AppDirs |-> [v \in AppVideos |-> get_preview_path(d, v)]]

ResolvedTable == [q \in AppDirs \cup AppVideos \cup AppPreviews |-> ResolvedStr(q)]

ScanTable == [d \in AppDirs |-> SortedPaths(ScannedVideos(d))]

\* sorted(scan_videos(dataset_dir)): rglob meets the files that are on the disk
SortedScan(d) ==
    IF ~IsDir(d) THEN <<>> ELSE SelectSeq(ScanTable[d], LAMBDA v : ResolvedTable[v] \notin gone)

\* pp.exists()
PreviewExists(pp) == ResolvedTable[pp] \in previews

(***************************************************************************)
(* The dataset directories of the model, as the caller can name them: "/s" *)
(* is a symbolic link to "/a", "d" is relative to the working directory.   *)
(***************************************************************************)
DirInputs ==
    { <<"/", "a">>, <<"/", "s">>, <<"/", "a", "/", "d">>, <<"d">>,
      <<"/", "a", "/", "d", "/", "..">> }

\* the dataset directories by resolved path: the keys of the disk's maps
Roots == {ResolvedStr(d) : d \in DirInputs \cup AppDirs}

(***************************************************************************)
(* Harness for normalize_tags: the caller normalises an input, then        *)
(* normalises the result again.                                            *)
(***************************************************************************)
MaxTagLen == 4

TagChars == {"a", "b", " ", ",", ";"}

DiskIdle ==
    /\ sidecar = [r \in Roots |-> IF r \in FsDirs THEN Absent ELSE NoDir]
    /\ history = [r \in Roots |-> <<>>]
    /\ previews = {}
    /\ now = 0
    /\ gone = {}

\* DatasetManagerApp.__init__ and _build_ui
AppInit ==
    /\ _dataset_dir = None
    /\ _video_paths = <<>>
    /\ _metadata = <<>>
    /\ _export_selected = {}
    /\ tree = <<>>
    /\ sel = None
    /\ panel = [label |-> [text |-> "Select a video."], image |-> [kind |-> "none"]]
    /\ status = [main |-> [text |-> "Select a directory to list videos."],
                 tags |-> [text |-> ""], untagged |-> [text |-> ""]]
    /\ boxes = <<>>
    /\ threads = <<>>
    /\ after_q = <<>>
    /\ loads = 0
    /\ saves = [calls |-> 0, failed |-> "none"]
    /\ inline = None

\* the harnesses call the module's functions; no application object exists
NoApp == AppInit /\ libs = [cv2 |-> FALSE, pil |-> FALSE]

InitTags ==
    /\ DiskIdle
    /\ NoApp
    /\ arg \in SeqsUpTo(TagChars, MaxTagLen)
    /\ ret = <<>>
    /\ pc = "call"

TagsNormalize ==
    /\ pc = "call"
    /\ ret' = <<normalize_tags(arg)>>
    /\ pc' = "again"
    /\ UNCHANGED <<diskVars, arg, appVars>>

TagsNormalizeAgain ==
    /\ pc = "again"
    /\ ret' = Append(ret, normalize_tags(ret[1]))
    /\ pc' = "done"
    /\ UNCHANGED <<diskVars, arg, appVars>>

NextTags == TagsNormalize \/ TagsNormalizeAgain

SpecTags == InitTags /\ [][NextTags]_vars

\* The input's tokens, stated without the code's split: a token is a maximal
\* run of non-separator characters; TokenAt(s, k) is the k-th one from the left.
TokenStarts(s) == {i \in 1..Len(s) : ~IsSep(s[i]) /\ (i = 1 \/ IsSep(s[i - 1]))}

TokenEnd(s, i) ==
    CHOOSE j \in i..Len(s) :
        /\ \A k \in i..j : ~IsSep(s[k])
        /\ (j = Len(s) \/ IsSep(s[j + 1]))

KthStart(s, k) ==
    CHOOSE i \in TokenStarts(s) : Cardinality({j \in TokenStarts(s) : j < i}) = k - 1

TokenAt(s, k) == SubSeq(s, KthStart(s, k), TokenEnd(s, KthStart(s, k)))

TokensOf(s) == [k \in 1..Cardinality(TokenStarts(s)) |-> TokenAt(s, k)]

\* tokens joined by "; ": token k is followed by "; " unless it is the last
JoinedTokens(s) ==
    Concat([k \in 1..Len(TokensOf(s)) |->
              IF k < Len(TokensOf(s)) THEN TokensOf(s)[k] \o <<";", " ">>
              ELSE TokensOf(s)[k]])

\* C5: normalize_tags is idempotent, its result is the input's non-empty
\* tokens in their order joined by "; ", and an empty or whitespace-only
\* input gives the empty string.
C5_NormalizeIdempotent ==
    /\ pc \in {"again", "done"} =>
          /\ ret[1] = JoinedTokens(arg)
          /\ ((\A i \in 1..Len(arg) : IsSpace(arg[i])) => ret[1] = <<>>)
    /\ pc = "done" => ret[2] = ret[1]

\* an input of several tokens typed with mixed separators, normalised twice
C5_Witness ==
    /\ pc = "done"
    /\ Len(TokensOf(arg)) >= 2
    /\ \E i \in 1..Len(arg) : arg[i] = ","
    /\ ret[1] # arg

(***************************************************************************)
(* Harness for the metadata store: a caller holding a dataset directory    *)
(* and a mapping saves, loads and edits; other programs rewrite the        *)
(* sidecar; the clock advances.  A run ends with the caller's load.        *)
(***************************************************************************)
MaxSaves == 2

MaxClock == 2

\* resolved absolute paths: a file below "/a" and not below "/a/d", the
\* directory "/a/d" itself, and a file outside every dataset directory
StoreKeys ==
    { <<"/", "a", "/", "x", ".mp4">>, <<"/", "a", "/", "d">>, <<"/", "o", "/", "x", ".mp4">> }

StoreEntries == {EmptyEntry, [tags |-> <<"t">>, notes |-> <<"n">>]}

IsDict(d) == \A i, j \in 1..Len(d) : d[i][1] = d[j][1] => i = j

\* every mapping over these keys, in every insertion order
StoreData == {d \in SeqsUpTo(StoreKeys \X StoreEntries, Cardinality(StoreKeys)) : IsDict(d)}

\* what another program can leave in the sidecar file
ForeignContents ==
    { Unreadable, NotUtf8, NotJson, JsonFile(JsonOther),
      JsonFile(JsonObject(<< << <<"x", ".mp4">>, JsonOther >>,
                             << <<"y", ".mp4">>, [t |-> "object", fields |-> [tags |-> JsonNull]] >>,
                             << <<".", "/", "y", ".mp4">>,
                                [t |-> "object", fields |-> [tags |-> <<"t">>, notes |-> JsonNumber]] >> >>)) }

StoreRoot == ResolvedStr(arg.dir)

StoreDone == pc \in {"loaded", "roundtrip"}

\* the caller holds no result of a load
NoResult == [raised |-> "none", value |-> <<>>]

InitStore ==
    /\ DiskIdle
    /\ NoApp
    /\ arg \in [dir : DirInputs, data : StoreData, saves : {0}]
    /\ ret = NoResult
    /\ pc = "idle"

\* save_metadata(dir, data), failing at `fault`
StoreSave(fault) ==
    /\ ~StoreDone
    /\ arg.saves < MaxSaves
    /\ sidecar' = [sidecar EXCEPT ![StoreRoot] = SidecarAfterSave(@, arg.dir, arg.data, fault)]
    /\ history' = [history EXCEPT ![StoreRoot] = HistoryAfterSave(@, sidecar'[StoreRoot], fault, now)]
    /\ arg' = [arg EXCEPT !.saves = @ + 1]
    /\ pc' = IF fault = "none" THEN "saved" ELSE "save_raised"
    /\ ret' = NoResult
    /\ UNCHANGED <<previews, now, gone, appVars>>

\* load_metadata(dir)
StoreLoad ==
    /\ ~StoreDone
    /\ ret' = load_metadata(sidecar[StoreRoot], arg.dir)
    /\ pc' = IF pc = "saved" THEN "roundtrip" ELSE "loaded"
    /\ UNCHANGED <<diskVars, arg, appVars>>

\* the caller changes the tags of the first entry of its mapping
StoreEdit ==
    /\ pc = "saved"
    /\ arg.data # <<>>
    /\ arg.data[1][2]["tags"] # <<"u">>
    /\ arg' = [arg EXCEPT !.data[1][2]["tags"] = <<"u">>]
    /\ pc' = "edited"
    /\ ret' = NoResult
    /\ UNCHANGED <<diskVars, appVars>>

\* another program rewrites the sidecar
StoreForeignWrite ==
    /\ pc \in {"idle", "saved"}
    /\ \E c \in ForeignContents : sidecar' = [sidecar EXCEPT ![StoreRoot] = c]
    /\ pc' = "foreign"
    /\ ret' = NoResult
    /\ UNCHANGED <<history, previews, now, gone, arg, appVars>>

StoreTick ==
    /\ ~StoreDone
    /\ now < MaxClock
    /\ now' = now + 1
    /\ UNCHANGED <<sidecar, history, previews, gone, harnessVars, appVars>>

NextStore ==
    \/ \E fault \in SaveFaults : StoreSave(fault)
    \/ StoreLoad
    \/ StoreEdit
    \/ StoreForeignWrite
    \/ StoreTick

SpecStore == InitStore /\ [][NextStore]_vars

\* C1: save_metadata followed by load_metadata on the same dataset directory
\* returns a mapping with exactly the keys that were saved and the same tags
\* and notes for every key.
C1_RoundTrip ==
    pc = "roundtrip" => ret.raised = "none" /\ DictEq(ret.value, arg.data)

\* a round trip of a mapping with a key inside the dataset directory (stored
\* relative) and one outside it (stored absolute), through the symbolic link
C1_Witness ==
    /\ pc = "roundtrip"
    /\ arg.dir = <<"/", "s">>
    /\ DictKeys(arg.data) = {<<"/", "a", "/", "x", ".mp4">>, <<"/", "o", "/", "x", ".mp4">>}
    /\ DictKeys(SavedObject(arg.data, Resolve(PathOf(arg.dir)), <<>>))
          = {<<"x", ".mp4">>, <<"/", "o", "/", "x", ".mp4">>}

\* C3: every successful save adds a history file distinct from those of the
\* earlier saves, holding the sidecar as this save wrote it, and leaves the
\* earlier history files as they were.
C3_DistinctHistoryFiles ==
    [][(pc' = "saved" /\ arg'.saves # arg.saves) =>
          /\ DOMAIN history'[StoreRoot] # DOMAIN history[StoreRoot]
          /\ \A ts \in DOMAIN history[StoreRoot] :
                history'[StoreRoot][ts] = history[StoreRoot][ts]
          /\ \E ts \in DOMAIN history'[StoreRoot] \ DOMAIN history[StoreRoot] :
                history'[StoreRoot][ts] = sidecar'[StoreRoot]]_vars

\* the sidecar's members that are mappings, by the absolute path load_metadata
\* gives them
MappingKeys(content, dataset_dir) ==
    { PathStr(Resolve(PathJoin(Resolve(PathOf(dataset_dir)), PathOf(content.value.items[i][1])))) :
        i \in {j \in 1..Len(content.value.items) : content.value.items[j][2].t = "object"} }

IsJsonObject(content) == content.kind = "json" /\ content.value.t = "object"

\* C4: load_metadata never raises; an absent, empty, unreadable or
\* unparseable sidecar, or one that is not a mapping, gives the empty
\* mapping; of a mapping, exactly the members that are mappings are returned.
C4_LoadNeverRaises ==
    StoreDone =>
        /\ ret.raised = "none"
        /\ ~IsJsonObject(sidecar[StoreRoot]) => ret.value = <<>>
        /\ IsJsonObject(sidecar[StoreRoot]) =>
              DictKeys(ret.value) = MappingKeys(sidecar[StoreRoot], arg.dir)

(***************************************************************************)
(* Harness for merge_with_video_list: one call on a video list and a       *)
(* stored mapping.                                                         *)
(***************************************************************************)
MaxMergeList == 3

\* video paths as a scan yields them: below "/a", the same file through the
\* symbolic link "/s", and a file in the subdirectory
MergeVideos ==
    { <<"/", "a", "/", "x", ".mp4">>, <<"/", "s", "/", "x", ".mp4">>,
      <<"/", "a", "/", "d", "/", "y", ".mp4">> }

\* stored keys: two of the videos and a file that is in no video list
MergeKeys ==
    { <<"/", "a", "/", "x", ".mp4">>, <<"/", "a", "/", "d", "/", "y", ".mp4">>,
      <<"/", "a", "/", "z", ".mp4">> }

\* stored entries: complete, without notes, without any field
MergeEntries == {[tags |-> <<"t">>, notes |-> <<"n">>], [tags |-> <<"t">>], <<>>}

MergeData == {d \in SeqsUpTo(MergeKeys \X MergeEntries, Cardinality(MergeKeys)) : IsDict(d)}

InitMerge ==
    /\ DiskIdle
    /\ NoApp
    /\ arg \in [video_paths : SeqsUpTo(MergeVideos, MaxMergeList), metadata : MergeData]
    /\ ret = <<>>
    /\ pc = "call"

MergeCall ==
    /\ pc = "call"
    /\ ret' = merge_with_video_list(arg.video_paths, arg.metadata)
    /\ pc' = "done"
    /\ UNCHANGED <<diskVars, arg, appVars>>

NextMerge == MergeCall

SpecMerge == InitMerge /\ [][NextMerge]_vars

\* C2: the result's keys are exactly the resolved paths of the video list; a
\* listed video with a stored entry keeps its tags and notes, a missing field
\* being the empty string; a listed video without one gets empty tags and
\* notes; a stored key that is not listed is absent.
C2_MergeCoversVideoList ==
    pc = "done" =>
        /\ DictKeys(ret) = {ResolvedStr(arg.video_paths[i]) : i \in 1..Len(arg.video_paths)}
        /\ \A k \in DictKeys(ret) :
              IF k \in DictKeys(arg.metadata)
              THEN \A f \in Fields :
                      DictGet(ret, k)[f] = IF f \in DOMAIN DictGet(arg.metadata, k)
                                           THEN DictGet(arg.metadata, k)[f] ELSE <<>>
              ELSE DictGet(ret, k) = [tags |-> <<>>, notes |-> <<>>]
        /\ \A k \in DictKeys(arg.metadata) :
              k \notin {ResolvedStr(arg.video_paths[i]) : i \in 1..Len(arg.video_paths)}
                 => k \notin DictKeys(ret)

\* a merge that keeps a stored entry (filling its missing notes), adds a new
\* video and drops a stored key that is not listed
C2_Witness ==
    /\ pc = "done"
    /\ arg.video_paths = << <<"/", "s", "/", "x", ".mp4">>, <<"/", "a", "/", "d", "/", "y", ".mp4">> >>
    /\ DictKeys(arg.metadata) = {<<"/", "a", "/", "x", ".mp4">>, <<"/", "a", "/", "z", ".mp4">>}
    /\ DictGet(arg.metadata, <<"/", "a", "/", "x", ".mp4">>) = [tags |-> <<"t">>]
    /\ Len(ret) = 2

(***************************************************************************)
(* DatasetManagerApp: the handlers of the UI thread                        *)
(***************************************************************************)
\* the rows _refresh_table inserts; _export_selected was just cleared, so
\* every check mark is the empty box
TreeRows(d, vps, md) ==
    [i \in 1..Len(vps) |->
        LET p == PathOf(vps[i])
            key == ResolvedStr(vps[i])
            rp == IF RelativeToRaises(p, PathOf(d)) THEN p ELSE RelativeTo(p, PathOf(d))
            m == IF DictHas(md, key) THEN DictGet(md, key) ELSE EmptyEntry
        IN  [iid |-> key, check |-> FALSE, filename |-> PathName(p), path |-> PathStr(rp),
             tags |-> FieldGet(m, "tags"), notes |-> FieldGet(m, "notes")]]

\* the text of _status_tags
TagCountsLabel(md) ==
    IF DOMAIN count_tags_in_metadata(md) = {} THEN [text |-> "Tag counts: (none)"]
    ELSE [text |-> "Tag counts: ", counts |-> count_tags_in_metadata(md)]

\* the text of _status_untagged
UntaggedLabel(md) ==
    [text |-> "Files without tags: ",
     n |-> Cardinality({i \in 1..Len(md) : Strip(OrEmpty(FieldGet(md[i][2], "tags"))) = <<>>})]

\* A thread of gen(): the dataset directory and the video list it was given,
\* its place in the loop (i: the index of p in vps; pc), the preview path pp
\* and what generate_one_preview returned.  pp and ok are kept only from their
\* assignment to their last use; a thread that returned keeps nothing.
EndedThread == [dd |-> <<>>, vps |-> <<>>, i |-> 0, pc |-> "done", pp |-> <<>>, ok |-> FALSE]

NewThread(dd, vps) == [dd |-> dd, vps |-> vps, i |-> 1, pc |-> "loop", pp |-> <<>>, ok |-> FALSE]

StartedThreadPerVideo(d, vps) ==
    IF d = None \/ vps = <<>> \/ ~libs.cv2 THEN threads
    ELSE threads \o [i \in 1..Len(vps) |-> NewThread(d, <<vps[i]>>)]

\* _start_preview_generation: the threads after it
StartedThreads(d, vps) ==
    IF d = None \/ vps = <<>> \/ ~libs.cv2 THEN threads
    ELSE Append(threads, NewThread(d, vps))

\* _refresh_table with self._dataset_dir = d
RefreshTable(d) ==
    LET vps == SortedScan(d)
        loaded == load_metadata(sidecar[ResolvedTable[d]], d)
        md == merge_with_video_list(vps, loaded.value)
    IN  /\ tree' = IF ~IsDir(d) \/ loaded.raised # "none" THEN <<>> ELSE TreeRows(d, vps, md)
        /\ sel' = None
        /\ loads' = loads + 1
        /\ IF ~IsDir(d)
           THEN /\ status' = [main |-> [text |-> "Select a directory to list videos."],
                             tags |-> [text |-> ""], untagged |-> [text |-> ""]]
                /\ panel' = [label |-> [text |-> "Select a video."], image |-> [kind |-> "none"]]
                /\ UNCHANGED <<_export_selected, _video_paths, _metadata, threads>>
           ELSE IF loaded.raised # "none"
           THEN \* the exception leaves the handler after line 298
                /\ _export_selected' = {}
                /\ _video_paths' = vps
                /\ UNCHANGED <<_metadata, status, panel, threads>>
           ELSE /\ _export_selected' = {}
                /\ _video_paths' = vps
                /\ _metadata' = md
                /\ status' = [main |-> [text |-> "%d video(s) (including subfolders).", n |-> Len(vps)],
                             tags |-> TagCountsLabel(md), untagged |-> UntaggedLabel(md)]
                /\ threads' = StartedThreads(d, vps)
                /\ UNCHANGED panel

\* _show_preview_image(path): what _preview_image_label shows after it
ShownImage(path) ==
    IF ~libs.pil THEN [kind |-> "text", text |-> "(PIL required)"]
    ELSE IF PreviewExists(path) THEN [kind |-> "photo", path |-> path]
    ELSE [kind |-> "text", text |-> "(load error)"]

\* _on_selection_change with the selection s: the panel after it
PanelForSelection(s) ==
    IF s = None \/ _dataset_dir = None
    THEN [label |-> [text |-> "Select a video."], image |-> [kind |-> "none"]]
    ELSE IF PreviewExists(PreviewPathTable[_dataset_dir][s])
    THEN [label |-> [name |-> PathName(PathOf(s)), note |-> ""],
          image |-> ShownImage(PreviewPathTable[_dataset_dir][s])]
    ELSE [label |-> [name |-> PathName(PathOf(s)), note |-> " (no preview yet)"],
          image |-> [kind |-> "none"]]

PanelAfterAnyUpdate(new_path) ==
    IF sel = None \/ _dataset_dir = None THEN panel
    ELSE [label |-> [name |-> PathName(PathOf(sel)), note |-> ""], image |-> ShownImage(new_path)]

\* _maybe_update_preview(new_path): the panel after it
PanelAfterUpdate(new_path) ==
    IF sel = None \/ _dataset_dir = None THEN panel
    ELSE IF ResolvedTable[new_path] = ResolvedTable[PreviewPathTable[_dataset_dir][sel]]
    THEN [label |-> [name |-> PathName(PathOf(sel)), note |-> ""], image |-> ShownImage(new_path)]
    ELSE panel

\* the directories the directory picker can return: "/n" does not exist
DirChoices == AppDirs

MaxLoads == 2

\* _on_select_dir, the picker returning `path`
OnSelectDir(path) ==
    /\ loads < MaxLoads
    /\ _dataset_dir' = path
    /\ RefreshTable(path)
    /\ boxes' = <<>>
    /\ UNCHANGED <<diskVars, harnessVars, libs, after_q, saves, inline>>

\* _on_refresh
OnRefresh ==
    /\ loads < MaxLoads
    /\ IF _dataset_dir # None
       THEN /\ RefreshTable(_dataset_dir)
            /\ boxes' = <<>>
            /\ UNCHANGED _dataset_dir
       ELSE /\ boxes' = <<[kind |-> "info", text |-> "Please select a directory first."]>>
            /\ UNCHANGED <<_dataset_dir, _video_paths, _metadata, _export_selected, tree, sel,
                           panel, status, threads, loads>>
    /\ UNCHANGED <<diskVars, harnessVars, libs, after_q, saves, inline>>

\* the user selects a row: <<TreeviewSelect>> runs _on_selection_change
OnSelectRow(iid) ==
    /\ iid # sel
    /\ \E i \in 1..Len(tree) : tree[i].iid = iid
    /\ sel' = iid
    /\ panel' = PanelForSelection(iid)
    /\ UNCHANGED <<diskVars, harnessVars, libs, _dataset_dir, _video_paths, _metadata,
                   _export_selected, tree, status, boxes, threads, after_q, loads, saves, inline>>

\* <<TreeviewSelect>> delivered after the selected row was deleted
OnSelectionCleared ==
    /\ sel = None
    /\ panel' = PanelForSelection(None)
    /\ UNCHANGED <<diskVars, harnessVars, libs, _dataset_dir, _video_paths, _metadata,
                   _export_selected, tree, sel, status, boxes, threads, after_q, loads, saves, inline>>

\* the event loop runs the oldest callback of root.after: _maybe_update_preview
MaybeUpdatePreview ==
    /\ after_q # <<>>
    /\ after_q' = Tail(after_q)
    /\ panel' = PanelAfterUpdate(Head(after_q))
    /\ UNCHANGED <<diskVars, harnessVars, libs, _dataset_dir, _video_paths, _metadata,
                   _export_selected, tree, sel, status, boxes, threads, loads, saves, inline>>

(***************************************************************************)
(* The background threads: gen() of _start_preview_generation              *)
(***************************************************************************)
SweepDirOfApp(t) == IF _dataset_dir = None THEN t.dd ELSE _dataset_dir

\* dd of get_preview_path(dd, p): the directory gen() closed over
SweepDir(t) == t.dd

\* for p in vps: pp = get_preview_path(dd, p); if pp.exists(): continue
WorkerLoop(k) ==
    /\ threads[k].pc = "loop"
    /\ LET t == threads[k]
           pp == PreviewPathTable[SweepDir(t)][t.vps[t.i]]
       IN  threads' = [threads EXCEPT ![k] =
              IF t.i > Len(t.vps) THEN EndedThread
              ELSE IF PreviewExists(pp) THEN [t EXCEPT !.i = @ + 1]
              ELSE [t EXCEPT !.pc = "generate", !.pp = pp]]
    /\ UNCHANGED <<diskVars, harnessVars, libs, _dataset_dir, _video_paths, _metadata,
                   _export_selected, tree, sel, panel, status, boxes, after_q, loads, saves, inline>>

\* generate_one_preview(video_path, preview_path): the value it returns when
\* the video gives a frame (decoded) or not
GenerateReturns(decoded) == libs.cv2 /\ decoded

\* the preview files after generate_one_preview: cv2.imwrite writes the
\* file, replacing a file of that name
PreviewsAfterGenerate(preview_path, decoded) ==
    IF GenerateReturns(decoded) THEN previews \cup {ResolvedTable[preview_path]} ELSE previews

\* generate_one_preview(p, pp)
WorkerGenerate(k, decoded) ==
    /\ threads[k].pc = "generate"
    /\ previews' = PreviewsAfterGenerate(threads[k].pp, decoded)
    /\ threads' = [threads EXCEPT ![k].pc = "post", ![k].ok = GenerateReturns(decoded)]
    /\ UNCHANGED <<sidecar, history, now, gone, harnessVars, libs, _dataset_dir, _video_paths,
                   _metadata, _export_selected, tree, sel, panel, status, boxes, after_q, loads, saves, inline>>

\* self.root.after(0, lambda pth=pp: self._maybe_update_preview(pth))
WorkerPost(k) ==
    /\ threads[k].pc = "post"
    /\ after_q' = Append(after_q, threads[k].pp)
    /\ threads' = [threads EXCEPT ![k].pc = "loop", ![k].i = @ + 1, ![k].pp = <<>>,
                                  ![k].ok = FALSE]
    /\ UNCHANGED <<diskVars, harnessVars, libs, _dataset_dir, _video_paths, _metadata,
                   _export_selected, tree, sel, panel, status, boxes, loads, saves, inline>>

Init ==
    /\ DiskIdle
    /\ AppInit
    /\ libs = [cv2 |-> TRUE, pil |-> TRUE]
    /\ arg = <<>>
    /\ ret = <<>>
    /\ pc = "app"

Next ==
    \/ \E path \in DirChoices : OnSelectDir(path)
    \/ OnRefresh
    \/ \E i \in 1..Len(tree) : OnSelectRow(tree[i].iid)
    \/ OnSelectionCleared
    \/ MaybeUpdatePreview
    \/ \E k \in 1..Len(threads) : WorkerLoop(k)
    \/ \E k \in 1..Len(threads) : \E decoded \in BOOLEAN : WorkerGenerate(k, decoded)
    \/ \E k \in 1..Len(threads) : WorkerPost(k)

Spec == Init /\ [][Next]_vars

\* C7: an existing preview is never overwritten: a thread writes a preview
\* file only when no file exists at that path at the moment of the write.
C7_NeverOverwritten ==
    [][\A k \in DOMAIN threads :
          (threads[k].pc = "generate" /\ threads'[k].pc = "post" /\ threads'[k].ok)
             => ResolvedTable[threads[k].pp] \notin previews]_vars

\* a thread is inside generate_one_preview
Generating(k) == threads[k].pc = "generate"

\* C8 as claimed: at every moment at most one background thread is
\* generating a preview.
C8_OneGeneratingThread == Cardinality({k \in DOMAIN threads : Generating(k)}) <= 1

\* C8 as amended: every directory load starts at most one background thread,
\* and a thread generates the previews of its own video list one at a time
\* (it is inside generate_one_preview for the one video its loop is at);
\* threads of different loads may be generating at the same moment.
C8_OneThreadPerLoad ==
    /\ Len(threads) <= loads
    /\ \A k \in DOMAIN threads :
          Generating(k) =>
              /\ threads[k].i \in 1..Len(threads[k].vps)
              /\ threads[k].pp = get_preview_path(threads[k].dd, threads[k].vps[threads[k].i])

\* two loads, two threads, both inside generate_one_preview
C8_Witness ==
    /\ loads = 2
    /\ Len(threads) = 2
    /\ Generating(1)
    /\ Generating(2)

\* C9: a refresh notification is posted only after a successful generation:
\* the queue of callbacks grows only by the preview path of a thread whose
\* generate_one_preview returned True.
C9_NotifyOnlyOnSuccess ==
    [][Len(after_q') > Len(after_q) =>
          \E k \in DOMAIN threads :
              /\ threads[k].pc = "post"
              /\ threads[k].ok
              /\ after_q' = Append(after_q, threads[k].pp)]_vars

\* the notified path is the preview path of the selected row under the
\* loaded dataset directory
NotifiedIsSelected(new_path) ==
    /\ sel # None
    /\ _dataset_dir # None
    /\ ResolvedStr(new_path) = ResolvedStr(get_preview_path(_dataset_dir, sel))

\* the notified path is the preview path of video v under directory d, and d
\* is not the loaded directory or v is not the selected video
NotifiedIsOther(new_path) ==
    \E d \in AppDirs, v \in AppVideos :
        /\ new_path = PreviewPathTable[d][v]
        /\ (d # _dataset_dir \/ ResolvedTable[v] # sel)

\* C10: a refresh notification changes the preview panel only when the
\* notified path is the preview path of the selected row under the loaded
\* directory; one of a sweep of another directory, one for another video and
\* one arriving when nothing is selected change nothing; no notification
\* changes any other state of the UI.
C10_StaleNotificationNoOp ==
    [][(after_q # <<>> /\ after_q' = Tail(after_q)) =>
          /\ panel' # panel => NotifiedIsSelected(Head(after_q))
          /\ (sel = None \/ NotifiedIsOther(Head(after_q))) => panel' = panel
          /\ UNCHANGED <<_dataset_dir, _video_paths, _metadata, _export_selected, tree, sel,
                         status, boxes>>]_vars

\* a notification of the sweep of "/a" is next to run while a row of "/a/d"
\* is selected and its panel says that it has no preview yet
C10_Witness ==
    /\ after_q # <<>>
    /\ _dataset_dir = <<"/", "a", "/", "d">>
    /\ sel = <<"/", "a", "/", "d", "/", "y", ".MP4">>
    /\ Head(after_q) = get_preview_path(<<"/", "a">>, <<"/", "a", "/", "d", "/", "y", ".MP4">>)
    /\ panel.label = [name |-> <<"y", ".MP4">>, note |-> " (no preview yet)"]

\* a step of a background thread: no thread was started and one moved
WorkerStep == Len(threads') = Len(threads) /\ threads' # threads

\* the preview path of the video the loop of thread k is at, in the directory
\* and the list the thread was started with (none when the list is exhausted)
SweepPreview(k) ==
    IF threads[k].i \in 1..Len(threads[k].vps)
    THEN {get_preview_path(threads[k].dd, threads[k].vps[threads[k].i])}
    ELSE {}

\* C11: a background thread works on the dataset directory and the video list
\* it was given when its sweep started and writes nothing but preview files:
\* no step of a thread changes the metadata mapping, the video list, the
\* export selection, the selected directory or the metadata files; the one
\* file it writes is the preview of the video its loop is at; and no step of
\* the UI thread, a directory selection or a refresh in particular, changes the
\* directory or the list of a sweep that is running.
C11_WorkerFrame ==
    [][/\ WorkerStep =>
            /\ UNCHANGED <<_metadata, _video_paths, _export_selected, _dataset_dir, sidecar,
                           history, tree, sel>>
            /\ \A k \in DOMAIN threads :
                  threads'[k] # threads[k] =>
                     /\ previews' \ previews \subseteq
                           {ResolvedStr(pp) : pp \in SweepPreview(k)}
                     /\ threads'[k].pc = "generate" => threads'[k].pp \in SweepPreview(k)
       /\ \A k \in DOMAIN threads :
             /\ k \in DOMAIN threads'
             /\ threads'[k].pc # "done" =>
                   /\ threads'[k].dd = threads[k].dd
                   /\ threads'[k].vps = threads[k].vps
                   /\ threads'[k].i \in {threads[k].i, threads[k].i + 1}]_vars

\* the sweep of "/a" is at its second video while "/a/d", whose list has one
\* video, is the loaded directory
C11_Witness ==
    /\ Len(threads) = 2
    /\ threads[1].dd = <<"/", "a">>
    /\ threads[1].i = 2
    /\ threads[1].pc = "generate"
    /\ _dataset_dir = <<"/", "a", "/", "d">>
    /\ Len(_video_paths) = 1
    /\ _metadata # <<>>

(***************************************************************************)
(* The UI thread without OpenCV (cv2 = None: no preview is generated):     *)
(* directory loads, the edit dialog and saves.                             *)
(***************************************************************************)
\* what the user types into the dialog's tags and notes fields
DialogInputs ==
    { [tags |-> <<"t", ",">>, notes |-> <<" ", "n">>], [tags |-> <<>>, notes |-> <<>>] }

\* EditDialog._ok: the dialog's result
DialogResult(typed) == [tags |-> normalize_tags(typed.tags), notes |-> Strip(typed.notes)]

\* _on_edit, the user typing `typed` and pressing OK, or cancelling
OnEdit(typed, ok) ==
    /\ IF sel = None
       THEN /\ boxes' = <<[kind |-> "info", text |-> "Select a row to edit."]>>
            /\ UNCHANGED <<_metadata, tree>>
       ELSE /\ boxes' = <<>>
            /\ IF ~ok THEN UNCHANGED <<_metadata, tree>>
               ELSE /\ _metadata' = DictSet(_metadata, sel, DialogResult(typed))
                    /\ tree' = [i \in 1..Len(tree) |->
                                  IF tree[i].iid = sel
                                  THEN [tree[i] EXCEPT !.tags = DialogResult(typed).tags,
                                                       !.notes = DialogResult(typed).notes]
                                  ELSE tree[i]]
    /\ UNCHANGED <<diskVars, harnessVars, libs, _dataset_dir, _video_paths, _export_selected,
                   sel, panel, status, threads, after_q, loads, saves, inline>>

MetadataReloadedOnError(fault) ==
    IF fault = "none" THEN _metadata
    ELSE merge_with_video_list(_video_paths,
                               load_metadata(sidecar[ResolvedStr(_dataset_dir)], _dataset_dir).value)

\* self._metadata after _on_save: save_metadata reads its argument and the
\* handler assigns nothing to it
MetadataAfterSave(fault) == _metadata

\* _on_save, save_metadata failing at `fault`
OnSave(fault) ==
    IF _dataset_dir = None
    THEN /\ boxes' = <<[kind |-> "info", text |-> "Please select a directory first."]>>
         /\ UNCHANGED <<diskVars, harnessVars, libs, _dataset_dir, _video_paths, _metadata,
                        _export_selected, tree, sel, panel, status, threads, after_q, loads,
                        saves, inline>>
    ELSE /\ saves.calls < MaxSaves
         /\ saves' = [calls |-> saves.calls + 1, failed |-> fault]
         /\ sidecar' = [sidecar EXCEPT ![ResolvedStr(_dataset_dir)] =
                           SidecarAfterSave(@, _dataset_dir, _metadata, fault)]
         /\ history' = [history EXCEPT ![ResolvedStr(_dataset_dir)] =
                           HistoryAfterSave(@, sidecar'[ResolvedStr(_dataset_dir)], fault, now)]
         /\ _metadata' = MetadataAfterSave(fault)
         /\ IF fault = "none"
            THEN /\ status' = [main |-> [text |-> "Saved to %s", sp |-> _dataset_dir],
                              tags |-> TagCountsLabel(_metadata),
                              untagged |-> UntaggedLabel(_metadata)]
                 /\ boxes' = <<>>
            ELSE /\ boxes' = <<[kind |-> "error", text |-> "Failed to save: %s", ex |-> fault]>>
                 /\ UNCHANGED status
         /\ UNCHANGED <<previews, now, gone, harnessVars, libs, _dataset_dir, _video_paths,
                        _export_selected, tree, sel, panel, threads, after_q, loads, inline>>

InitUI ==
    /\ DiskIdle
    /\ AppInit
    /\ libs = [cv2 |-> FALSE, pil |-> TRUE]
    /\ arg = <<>>
    /\ ret = <<>>
    /\ pc = "app"

NextUI ==
    \/ \E path \in DirChoices : OnSelectDir(path)
    \/ OnRefresh
    \/ \E i \in 1..Len(tree) : OnSelectRow(tree[i].iid)
    \/ OnSelectionCleared
    \/ \E typed \in DialogInputs, ok \in BOOLEAN : OnEdit(typed, ok)
    \/ \E fault \in SaveFaults : OnSave(fault)

SpecUI == InitUI /\ [][NextUI]_vars

\* C6: when a save triggered from the UI fails with an I/O error, the error
\* is reported once, save_metadata is not called again, and the in-memory
\* mapping is what it was.
C6_FailedSaveKeepsMapping ==
    [][(saves'.calls # saves.calls /\ saves'.failed # "none") =>
          /\ _metadata' = _metadata
          /\ saves'.calls = saves.calls + 1
          /\ Len(boxes') = 1
          /\ boxes'[1].kind = "error"]_vars

\* a save of an edited mapping failed after the sidecar was written
C6_Witness ==
    /\ saves.failed = "copy"
    /\ \E i \in 1..Len(_metadata) : _metadata[i][2].tags = <<"t">>
    /\ Len(boxes) = 1
    /\ boxes[1].kind = "error"

(***************************************************************************)
(* Inline editing in the table, with the video files of the dataset        *)
(* directory deleted by other programs while the application runs.         *)
(***************************************************************************)
\* what the user types into the inline entry
InlineInputs == { <<"t", ",">> }

\* the Treeview columns the user clicks in: "#4" (tags) and "#5" (notes), which
\* open the inline entry ("#1" toggles the export check mark)
ClickColumns == {4, 5}

\* _commit_inline: val as it is stored, for the column index col
CommitValue(col, typed) == IF col = 3 THEN normalize_tags(Strip(typed)) ELSE Strip(typed)

\* _commit_inline: self._metadata after setdefault(iid, ...) and the
\* assignment of the field
MetadataAfterCommit(metadata, iid, col, typed) ==
    LET e == IF DictHas(metadata, iid) THEN DictGet(metadata, iid) ELSE EmptyEntry
        fld == IF col = 3 THEN "tags" ELSE "notes"
    IN  DictSet(metadata, iid,
                [f \in DOMAIN e \cup {fld} |-> IF f = fld THEN CommitValue(col, typed) ELSE e[f]])

\* self._tree.item(iid) raises TclError when the Treeview has no such row
HasRow(rows, iid) == \E i \in 1..Len(rows) : rows[i].iid = iid

\* _commit_inline: the rows after it (unchanged when self._tree.item raised)
TreeAfterCommit(rows, iid, col, typed) ==
    [i \in 1..Len(rows) |->
        IF rows[i].iid # iid THEN rows[i]
        ELSE IF col = 3 THEN [rows[i] EXCEPT !.tags = CommitValue(col, typed)]
        ELSE [rows[i] EXCEPT !.notes = CommitValue(col, typed)]]

\* _commit_inline run by <Return> or by the callback of <FocusOut>
CommitInline(typed) ==
    /\ inline # None
    /\ inline' = None
    /\ _metadata' = MetadataAfterCommit(_metadata, inline[1], inline[2], typed)
    /\ tree' = TreeAfterCommit(tree, inline[1], inline[2], typed)
    /\ UNCHANGED <<diskVars, harnessVars, libs, _dataset_dir, _video_paths, _export_selected,
                   sel, panel, status, boxes, threads, after_q, loads, saves>>

\* _cancel_inline run by <Escape>
CancelInline ==
    /\ inline # None
    /\ inline' = None
    /\ UNCHANGED <<diskVars, harnessVars, libs, _dataset_dir, _video_paths, _metadata,
                   _export_selected, tree, sel, panel, status, boxes, threads, after_q, loads,
                   saves>>

\* _on_tree_click on the cell of row iid in column col, the inline entry (if
\* one is open) holding `typed`: the handler ends where _commit_inline raises
OnTreeClick(iid, col, typed) ==
    LET open == inline # None
        raised == open /\ ~HasRow(tree, inline[1])
        md == IF open THEN MetadataAfterCommit(_metadata, inline[1], inline[2], typed)
              ELSE _metadata
        rows == IF open THEN TreeAfterCommit(tree, inline[1], inline[2], typed) ELSE tree
    IN  /\ HasRow(tree, iid)
        /\ _metadata' = md
        /\ IF raised \/ col = 1 THEN inline' = None ELSE inline' = <<iid, col - 1>>
        /\ IF ~raised /\ col = 1
           THEN /\ _export_selected' = IF iid \in _export_selected
                                       THEN _export_selected \ {iid}
                                       ELSE _export_selected \cup {iid}
                /\ tree' = [i \in 1..Len(rows) |->
                              IF rows[i].iid = iid
                              THEN [rows[i] EXCEPT !.check = iid \notin _export_selected]
                              ELSE rows[i]]
           ELSE /\ tree' = rows
                /\ UNCHANGED _export_selected
        /\ UNCHANGED <<diskVars, harnessVars, libs, _dataset_dir, _video_paths, sel, panel,
                       status, boxes, threads, after_q, loads, saves>>

\* another program deletes a video file of the dataset (a deletion that no
\* later load can meet is left out)
FileRemoved(v) ==
    /\ loads < MaxLoads
    /\ v \notin gone
    /\ gone' = gone \cup {v}
    /\ UNCHANGED <<sidecar, history, previews, now, harnessVars, appVars>>

\* the dataset directory the user works in
EditDirs == {<<"/", "a">>}

InitEdit == InitUI

\* The directory dialog and the edit dialog take the focus: the <FocusOut>
\* callback of an open inline entry commits it while the dialog is up, which
\* is CommitInline before the handler's effect.
NextEdit ==
    \/ \E path \in EditDirs : inline = None /\ OnSelectDir(path)
    \/ OnRefresh
    \/ \E i \in 1..Len(tree) : OnSelectRow(tree[i].iid)
    \/ \E i \in 1..Len(tree), col \in ClickColumns, typed \in InlineInputs :
          OnTreeClick(tree[i].iid, col, typed)
    \/ \E typed \in InlineInputs : CommitInline(typed)
    \/ CancelInline
    \/ \E typed \in DialogInputs, ok \in BOOLEAN : inline = None /\ OnEdit(typed, ok)
    \/ \E fault \in {"none", "open"} : OnSave(fault)
    \/ \E v \in {ResolvedTable[w] : w \in AppVideos} : FileRemoved(v)

SpecEdit == InitEdit /\ [][NextEdit]_vars

\* C12: the keys of the in-memory metadata mapping are the resolved paths of
\* the current video list.
C12_KeysAreVideoList ==
    DictKeys(_metadata) = {ResolvedTable[_video_paths[i]] : i \in 1..Len(_video_paths)}

====
